---- MODULE Spec2Model ----
(***************************************************************************)
(* A model of the anova ledger core:                                       *)
(*   - the weighted Snowball voter (src/snowball.rs),                      *)
(*   - Transaction, Block and Chain (src/transaction.rs, src/block.rs,     *)
(*     src/chain.rs),                                                      *)
(*   - Mempool and Node (src/mempool.rs, src/node.rs).                     *)
(*                                                                         *)
(* Option<T> is modelled as a sequence of length at most one: None is <<>> *)
(* and Some(x) is <<x>>.  A HashMap<T, u8> is a function whose domain is   *)
(* the set of keys present.  Vote weights (f64 in the source) are drawn    *)
(* from the whole numbers 0..MaxWeight; a weight of 0 behaves in the       *)
(* favorite loop exactly like a negative or NaN weight (never chosen, but  *)
(* counted in the number of keys).                                         *)
(***************************************************************************)
EXTENDS Integers, Sequences, FiniteSets, TLC

VARIABLES
    \* Snowball<T> fields (src/snowball.rs:6-27)
    value, done, counter, counters, sample_size, quorum_size, decision_threshold,
    \* whether the build checks integer overflow (panic) or wraps
    overflow_checks,
    \* TRUE once a tick has panicked (unwrap of None, or u8 overflow in a
    \* build with overflow checks); the instance is not used afterwards
    panicked,
    \* the number of rounds the environment feeds to the instance
    round_limit,
    \* history: one entry per processed round, Some(winner) for a quorum
    \* round and None for a round without quorum, oldest first
    rounds,
    \* history: what the most recent call of tick was given and which path
    \* of tick it took
    last_call,
    \* Chain.0 (src/chain.rs:4)
    chain,
    \* history: the block handed to the last append, and the height that
    \* append returned (None before the first append)
    appended, ret,
    \* a Block value owned by the caller, not (yet) moved into a chain:
    \* None or Some(block)
    held,
    \* history: the most recent call made on or with the held block
    block_call,
    \* Mempool.0 (src/mempool.rs:6): the entries of the BTreeMap in the order
    \* the map keeps them, each [index, transaction]
    mempool,
    \* history: the entries a caller of Mempool put in and did not take out
    \* again, as a set of [index, transaction]
    stored,
    \* history: the most recent call on the Mempool and what it returned
    mp_call,
    \* Node.nonce (src/node.rs:18)
    node_nonce,
    \* history: what the most recent propose_block returned, and whether no
    \* finalize_block has run since
    proposal, fresh,
    \* history: the name of the most recent call on the Node
    node_call,
    \* history: for the transactions handed to add_transaction that have been
    \* pending ever since, the tips they were handed in under, as a set of
    \* <<transaction, id of the tip or None>>
    added_under,
    \* chain and mempool of a second Node
    peer_chain, peer_mempool,
    \* history: the most recent call of Transaction::deserialize or
    \* Block::deserialize: its bytes, whether it panicked, what it returned
    decoded,
    \* the Snowball over a list of votes of src/consensus/snowball.rs, as a
    \* record of its fields, and (history) its most recent call of tick
    multi, multi_call,
    \* history: the lists of votes of the calls of tick on it that went
    \* through the quorum test, oldest first
    multi_rounds,
    \* a second Snowball of src/snowball.rs, built with the same parameters
    \* and handed the same votes, as a record of its fields
    twin,
    \* history: the votes mapping of the most recent call of tick on both
    \* that did not return at once
    round

snowballVars == <<value, done, counter, counters, sample_size, quorum_size,
                  decision_threshold, overflow_checks, panicked, round_limit,
                  rounds, last_call>>
\* the fields of Snowball that tick may write
snowballState == <<value, done, counter, counters>>
\* the fields fixed at construction, and the build
snowballParams == <<sample_size, quorum_size, decision_threshold,
                    overflow_checks, round_limit>>
chainVars == <<chain, appended, ret>>
heldVars == <<held, block_call>>
mempoolVars == <<mempool, stored, mp_call>>
nodeVars == <<node_nonce, proposal, fresh, node_call, added_under>>
peerVars == <<peer_chain, peer_mempool>>
serdeVars == <<decoded>>
multiVars == <<multi, multi_call, multi_rounds>>
twinVars == <<twin, round>>
\* everything outside the Snowball instance
ledgerVars == <<chainVars, heldVars, mempoolVars, nodeVars, peerVars,
                serdeVars, multiVars>>
vars == <<value, done, counter, counters, sample_size, quorum_size,
          decision_threshold, overflow_checks, panicked, round_limit, rounds,
          last_call, chain, appended, ret, held, block_call, mempool, stored, mp_call,
          node_nonce, proposal, fresh, node_call, added_under, peer_chain,
          peer_mempool, decoded, multi, multi_call, multi_rounds, twin, round>>

---------------------------------------------------------------------------
(* Bounds of the model *)

MaxWeight == 3
MaxQuorum == 4
MaxThreshold == 3
MaxRounds == 4
\* blocks appended to a chain
MaxChain == 3
\* indexes in one call of Mempool::remove_transactions
MaxIndexes == 2
\* blocks a caller builds, rebinds and appends one at a time
MaxHeldChain == 2
\* blocks a Node finalizes
MaxNodeChain == 2
\* the last nonce a Node gives to a transaction it creates
MaxNonce == 1
\* blocks each of two Nodes finalizes
MaxPeerChain == 2
\* the longest list of votes handed to the Snowball over vote lists
MaxVotes == 3
\* the number of rounds fed to two Snowball instances side by side
MaxTwinRounds == 1
\* the number of rounds the Snowball over vote lists is taken through
MaxMultiRounds == 2
\* rounds of a long run: enough for a u8 to pass 255
LongRounds == 258

(* Program constants *)

\* counter and the per-value counters are u8
U8Max == 255
\* sample_size of tests::get_snowball; recorded, never read by tick
SampleSize == 5
\* quorum_size and decision_threshold of tests::get_snowball
QuorumSize == 4
DecisionThreshold == 3
\* bytes of a Keccak-256 digest
DigestLen == 32

None == << >>
Some(x) == <<x>>
IsSome(o) == Len(o) = 1
Unwrap(o) == o[1]

\* tests::Color
Values == {"Red", "Green", "Blue"}

\* The votes arguments: every mapping from a set of values to weights.
VoteMaps == UNION { [ks -> 0..MaxWeight] : ks \in SUBSET Values }

Max(S) == CHOOSE m \in S : \A n \in S : n <= m

---------------------------------------------------------------------------
(* Snowball::tick, src/snowball.rs:47-98 *)

\* lines 54-57: the number of keys, raised to 2
Denom(votes) ==
    IF Cardinality(DOMAIN votes) < 2 THEN 2 ELSE Cardinality(DOMAIN votes)

\* lines 60-67: favorite_votes after the loop; it starts at 0.0 and only a
\* strictly larger weight replaces it
FavoriteVotes(votes) == Max({0} \cup {votes[k] : k \in DOMAIN votes})

\* lines 60-67: the values favorite can hold after the loop.  The loop keeps
\* the first key, in the HashMap's iteration order, that carries the
\* largest weight; that order is not fixed, so every key with the largest
\* weight is possible.  No key is chosen when no weight exceeds 0.
Favorites(votes) ==
    {k \in DOMAIN votes : votes[k] > 0 /\ votes[k] = FavoriteVotes(votes)}

\* lines 54-67: what tick keeps of its votes argument: denom, favorite_votes
\* and the values favorite may hold; empty records whether the mapping had
\* no key at all
Tally(votes) ==
    [empty |-> DOMAIN votes = {},
     denom |-> Denom(votes),
     favorite_votes |-> FavoriteVotes(votes),
     favorites |-> Favorites(votes)]

\* The tallies of all votes arguments; two mappings with the same tally
\* take tick through the same steps.
Tallies == {Tally(votes) : votes \in VoteMaps}

\* line 70: favorite_votes >= quorum_size * 2.0 / denom, on whole weights
HasQuorum(t, q) == t.favorite_votes * t.denom >= q * 2

\* lines 76, 85: x += 1 on a u8.  A build with overflow checks panics at
\* 255 (ok is FALSE, x is not written), a build without wraps to 0.
AddOne(x, checks) ==
    IF x < U8Max THEN [ok |-> TRUE, v |-> x + 1]
    ELSE IF checks THEN [ok |-> FALSE, v |-> x]
    ELSE [ok |-> TRUE, v |-> (x + 1) % (U8Max + 1)]

\* HashMap::get as an Option
Get(m, k) == IF k \in DOMAIN m THEN Some(m[k]) ELSE None

\* Option<&u8> ordering: None < Some(_), Some(a) < Some(b) iff a < b
OptGreater(a, b) ==
    IF IsSome(a) /\ IsSome(b) THEN Unwrap(a) > Unwrap(b) ELSE IsSome(a) /\ ~IsSome(b)

\* line 76: *self.counters.entry(favorite).or_insert(0) += 1, given the
\* incremented number
Bump(m, k, n) == [x \in DOMAIN m \cup {k} |-> IF x = k THEN n ELSE m[x]]

\* NewValue with >= for >: a winner that only ties the current value takes over
NewValueOnTie(val, cs, fav) ==
    IF ~IsSome(val) \/ ~OptGreater(Get(cs, Unwrap(val)), Get(cs, fav))
    THEN Some(fav)
    ELSE val

\* lines 78-82: the value after a quorum round won by fav, cs being the
\* counters after the increment
NewValue(val, cs, fav) ==
    IF ~IsSome(val) \/ OptGreater(Get(cs, fav), Get(cs, Unwrap(val)))
    THEN Some(fav)
    ELSE val

\* lines 84-88: the counter after a quorum round won by fav
CounterStep(fav, old_value, cnt, checks) ==
    IF Some(fav) = old_value THEN AddOne(cnt, checks) ELSE [ok |-> TRUE, v |-> 1]

\* Decided with >= for >
DecidedAtThreshold(cnt, beta) == cnt >= beta

\* lines 95-97
Decided(cnt, beta) == cnt > beta

\* EarlyReturn with the test of done left out
EarlyReturnNever(d) == FALSE

\* lines 49-51
EarlyReturn(d) == d

\* or_insert(0): the number the entry holds before the increment of line 76
Entry(m, k) == IF k \in DOMAIN m THEN m[k] ELSE 0

\* An entry of last_call: whether the votes mapping was empty, the path tick
\* took ("return", "noquorum", "quorum", "panic") and, on the quorum branch,
\* the favorite.
Call(t, path, fav) == [empty |-> t.empty, path |-> path, favorite |-> fav]

\* The instance is in use and the environment has a round left to feed.
RoundsLeft == ~panicked /\ Len(rounds) < round_limit

\* lines 49-51: tick on a Snowball that is done
TickDone(t) ==
    /\ ~panicked
    /\ EarlyReturn(done)
    /\ last_call' = Call(t, "return", None)
    /\ UNCHANGED <<snowballState, snowballParams, panicked, rounds, ledgerVars>>

\* TickNoQuorum with the else branch of line 89 left out
TickNoQuorumKeepsCounter(t) ==
    /\ RoundsLeft
    /\ ~EarlyReturn(done)
    /\ ~HasQuorum(t, quorum_size)
    /\ done' = IF Decided(counter, decision_threshold) THEN TRUE ELSE done
    /\ rounds' = Append(rounds, None)
    /\ last_call' = Call(t, "noquorum", None)
    /\ UNCHANGED <<value, counter, counters, snowballParams, panicked, ledgerVars>>

\* lines 70, 89-97: a round without quorum
TickNoQuorum(t) ==
    /\ RoundsLeft
    /\ ~EarlyReturn(done)
    /\ ~HasQuorum(t, quorum_size)
    /\ counter' = 0
    /\ done' = IF Decided(0, decision_threshold) THEN TRUE ELSE done
    /\ rounds' = Append(rounds, None)
    /\ last_call' = Call(t, "noquorum", None)
    /\ UNCHANGED <<value, counters, snowballParams, panicked, ledgerVars>>

\* lines 70-72: the quorum test passes with favorite = None, unwrap panics
TickUnwrapNone(t) ==
    /\ RoundsLeft
    /\ ~EarlyReturn(done)
    /\ HasQuorum(t, quorum_size)
    /\ t.favorites = {}
    /\ panicked' = TRUE
    /\ last_call' = Call(t, "panic", None)
    /\ UNCHANGED <<snowballState, snowballParams, rounds, ledgerVars>>

\* lines 70-88, 95-97: a quorum round won by fav
TickQuorum(t) ==
    /\ RoundsLeft
    /\ ~EarlyReturn(done)
    /\ HasQuorum(t, quorum_size)
    /\ \E fav \in t.favorites :
         LET old_value == value
             c1 == AddOne(Entry(counters, fav), overflow_checks)
             cs == Bump(counters, fav, c1.v)
             nv == NewValue(value, cs, fav)
             c2 == CounterStep(fav, old_value, counter, overflow_checks)
         IN  IF ~c1.ok
             THEN \* line 76 panics: nothing was written
                  /\ panicked' = TRUE
                  /\ last_call' = Call(t, "panic", Some(fav))
                  /\ UNCHANGED <<snowballState, rounds>>
             ELSE IF ~c2.ok
             THEN \* line 85 panics: counters and value were written
                  /\ panicked' = TRUE
                  /\ counters' = cs
                  /\ value' = nv
                  /\ last_call' = Call(t, "panic", Some(fav))
                  /\ UNCHANGED <<done, counter, rounds>>
             ELSE /\ counters' = cs
                  /\ value' = nv
                  /\ counter' = c2.v
                  /\ done' = IF Decided(c2.v, decision_threshold) THEN TRUE ELSE done
                  /\ rounds' = Append(rounds, Some(fav))
                  /\ last_call' = Call(t, "quorum", Some(fav))
                  /\ UNCHANGED panicked
    /\ UNCHANGED <<snowballParams, ledgerVars>>

\* Snowball::new, lines 34-44; no tick was called yet
NewSnowball(k, q, beta) ==
    /\ value = None
    /\ done = FALSE
    /\ counter = 0
    /\ counters = << >>
    /\ sample_size = k
    /\ quorum_size = q
    /\ decision_threshold = beta
    /\ panicked = FALSE
    /\ rounds = << >>
    /\ last_call = [empty |-> FALSE, path |-> "new", favorite |-> None]
    /\ twin = [value |-> None, done |-> FALSE, counter |-> 0, counters |-> << >>,
               panicked |-> FALSE]
    /\ round = << >>

\* Snowball::new, src/consensus/snowball.rs:30-39; tick was not called yet
NewMultiset(k, q, beta) ==
    /\ multi = [value |-> None, is_done |-> FALSE, successes |-> 0,
                sample_size |-> k, quorum_size |-> q, decision_threshold |-> beta]
    /\ multi_call = [path |-> "new", votes |-> << >>]
    /\ multi_rounds = << >>

\* Chain::new, src/chain.rs:8-11; no append was called yet
\* Mempool::new, src/mempool.rs:10-13
NewMempool ==
    /\ mempool = << >>
    /\ stored = {}
    /\ mp_call = [op |-> "new", indexes |-> << >>, removed |-> 0, all |-> None]

\* Node::new, src/node.rs:23-32, for the fields besides chain and mempool;
\* no block is held by a caller and no proposal is out
NewNode ==
    /\ node_nonce = 1
    /\ proposal = None
    /\ fresh = FALSE
    /\ node_call = "new"
    /\ added_under = {}
    /\ held = None
    /\ block_call = "none"
    /\ peer_chain = << >>
    /\ peer_mempool = << >>
    /\ decoded = [op |-> "none", data |-> << >>, panicked |-> FALSE, out |-> None]

NewChain ==
    /\ chain = << >>
    /\ appended = None
    /\ ret = None

Init ==
    /\ \E q \in 0..MaxQuorum, beta \in 0..MaxThreshold :
         NewSnowball(SampleSize, q, beta)
    /\ overflow_checks \in BOOLEAN
    /\ round_limit = MaxRounds
    /\ NewChain
    /\ NewMempool
    /\ NewNode
    /\ NewMultiset(SampleSize, QuorumSize, DecisionThreshold)

\* One call of tick with any votes mapping.
Next ==
    \E t \in Tallies :
        \/ TickDone(t) /\ UNCHANGED twinVars
        \/ TickNoQuorum(t) /\ UNCHANGED twinVars
        \/ TickUnwrapNone(t) /\ UNCHANGED twinVars
        \/ TickQuorum(t) /\ UNCHANGED twinVars

Spec == Init /\ [][Next]_vars

---------------------------------------------------------------------------
(* Two instances built with the same parameters and handed the same votes  *)
(* mappings, call by call.                                                 *)

\* the fields of the first instance, as a record
Instance ==
    [value |-> value, done |-> done, counter |-> counter, counters |-> counters,
     panicked |-> panicked]

\* lines 72-97 on the instance s: the fields after a quorum round won by fav
QuorumOutcome(s, fav) ==
    LET c1 == AddOne(Entry(s.counters, fav), overflow_checks)
        cs == Bump(s.counters, fav, c1.v)
        nv == NewValue(s.value, cs, fav)
        c2 == CounterStep(fav, s.value, s.counter, overflow_checks)
    IN  IF ~c1.ok THEN [s EXCEPT !.panicked = TRUE]
        ELSE IF ~c2.ok
        THEN [s EXCEPT !.panicked = TRUE, !.counters = cs, !.value = nv]
        ELSE [s EXCEPT !.counters = cs, !.value = nv, !.counter = c2.v,
                       !.done = IF Decided(c2.v, decision_threshold) THEN TRUE ELSE @]

\* Snowball::tick, lines 47-98, on the instance s: the fields it may hold
\* after the call, one for every value favorite may hold after the loop
TickOutcomes(s, t) ==
    IF EarlyReturn(s.done) THEN {s}
    ELSE IF ~HasQuorum(t, quorum_size)
    THEN {[s EXCEPT !.counter = 0,
                    !.done = IF Decided(0, decision_threshold) THEN TRUE ELSE @]}
    ELSE IF t.favorites = {} THEN {[s EXCEPT !.panicked = TRUE]}
    ELSE {QuorumOutcome(s, fav) : fav \in t.favorites}

\* One call of tick on each instance with the same votes mapping.
TwinTick(votes) ==
    /\ ~twin.panicked
    /\ \/ TickDone(Tally(votes))
       \/ TickNoQuorum(Tally(votes))
       \/ TickUnwrapNone(Tally(votes))
       \/ TickQuorum(Tally(votes))
    /\ twin' \in TickOutcomes(twin, Tally(votes))
    /\ round' = IF EarlyReturn(done) THEN round ELSE votes

InitTwin ==
    /\ \E q \in 0..MaxQuorum : NewSnowball(SampleSize, q, 0)
    /\ overflow_checks = TRUE
    /\ round_limit = MaxTwinRounds
    /\ NewChain
    /\ NewMempool
    /\ NewNode
    /\ NewMultiset(SampleSize, QuorumSize, DecisionThreshold)

NextTwin == \E votes \in VoteMaps : TwinTick(votes)

SpecTwin == InitTwin /\ [][NextTwin]_vars

---------------------------------------------------------------------------
(* Long runs: the largest decision threshold a u8 holds, fed quorum rounds *)
(* until the 8-bit counters reach their end.                               *)

\* tests::track_successes: Red carries 3 of 5, Green and Blue 1 each
RedWins == [v \in Values |-> IF v = "Red" THEN 3 ELSE 1]
BlueWins == [v \in Values |-> IF v = "Blue" THEN 3 ELSE 1]

InitLong ==
    /\ NewSnowball(SampleSize, QuorumSize, U8Max)
    /\ overflow_checks \in BOOLEAN
    /\ round_limit = LongRounds
    /\ NewChain
    /\ NewMempool
    /\ NewNode
    /\ NewMultiset(SampleSize, QuorumSize, DecisionThreshold)

\* Quorum rounds won by Red, after at most one first round won by Blue.
NextLong ==
    \E votes \in {RedWins} \cup (IF rounds = << >> THEN {BlueWins} ELSE {}) :
        TickQuorum(Tally(votes)) /\ UNCHANGED twinVars

SpecLong == InitLong /\ [][NextLong]_vars

---------------------------------------------------------------------------
(* Hash and binary encoding, src/utils.rs and the bincode layout pinned by  *)
(* tests::serde of src/transaction.rs and src/block.rs.                     *)
(*                                                                         *)
(* A byte string is a sequence of items.  An item is a byte <<"u8", b>> or *)
(* a digest <<"keccak256", data>>, which stands for the 32 bytes of the    *)
(* Keccak-256 hash of data: two digests are equal exactly when they hash   *)
(* the same bytes.                                                         *)

Byte(b) == <<"u8", b>>
Bytes(s) == [i \in 1..Len(s) |-> Byte(s[i])]

\* Digests are kept symbolic: the digest of data is a token that names data.
\* Where digests are keys of a BTreeMap they are compared in the byte order
\* of Vec<u8>; the bytes of a digest are not computed here, so their order
\* is represented by a fixed ranking computed from the hashed data alone (a
\* function of what was hashed, unrelated to when a key was inserted).  The
\* token carries the rank of its digest.
RECURSIVE Mix(_)
Mix(data) ==
    IF data = << >> THEN 0
    ELSE IF Len(data) = 1
    THEN LET x == data[1]
         IN IF x[1] = "u8" THEN x[2] + 1 ELSE x[3]
    ELSE LET h == Len(data) \div 2
         IN (Mix(SubSeq(data, 1, h)) * 31
                + Mix(SubSeq(data, h + 1, Len(data))) * 17 + 1) % 1000003

\* utils::hash, src/utils.rs:22-26
Hash(data) == << <<"keccak256", data, Mix(data)>> >>

\* the number of bytes of a byte string; a digest counts DigestLen bytes
ByteLen(v) ==
    Len(v) + (DigestLen - 1) * Cardinality({i \in 1..Len(v) : v[i][1] = "keccak256"})

\* the k low bytes of n, lowest first
RECURSIVE LittleEndian(_, _)
LittleEndian(n, k) ==
    IF k = 0 THEN << >> ELSE <<Byte(n % 256)>> \o LittleEndian(n \div 256, k - 1)

\* a u64, and a length prefix: 8 bytes, little endian
U64LE(n) == LittleEndian(n, 8)

\* a Vec<u8>: its length, then its bytes
EncodeBytes(v) == U64LE(ByteLen(v)) \o v

\* an Option<Vec<u8>>: a tag byte, then the value if there is one
EncodeOption(o) ==
    IF IsSome(o) THEN <<Byte(1)>> \o EncodeBytes(Unwrap(o)) ELSE <<Byte(0)>>

\* Transaction::serialize, src/transaction.rs:29-32: the tuple (sender, nonce)
TransactionSerialize(sender, nonce) == EncodeBytes(sender) \o U64LE(nonce)

\* Transaction::generate_id, src/transaction.rs:23-26
TransactionGenerateId(sender, nonce) == Hash(TransactionSerialize(sender, nonce))

\* Transaction::new, src/transaction.rs:17-20
TransactionNew(sender, nonce) ==
    [id |-> TransactionGenerateId(sender, nonce), sender |-> sender, nonce |-> nonce]

\* a Transaction as serde writes it: its fields id, sender, nonce in order
EncodeTransaction(tx) ==
    EncodeBytes(tx.id) \o EncodeBytes(tx.sender) \o U64LE(tx.nonce)

RECURSIVE EncodeAll(_)
EncodeAll(txs) ==
    IF txs = << >> THEN << >>
    ELSE EncodeTransaction(Head(txs)) \o EncodeAll(Tail(txs))

\* Block::serialize, src/block.rs:45-51: the tuple (transactions, prev_block_id)
BlockSerialize(transactions, prev_block_id) ==
    U64LE(Len(transactions)) \o EncodeAll(transactions) \o EncodeOption(prev_block_id)

\* Block::generate_id, src/block.rs:36-42
BlockGenerateId(transactions, prev_block_id) ==
    Hash(BlockSerialize(transactions, prev_block_id))

\* Block::new that takes the id of an empty block without predecessor
BlockNewIdOfEmpty(transactions, prev_block_id) ==
    [id |-> BlockGenerateId(<< >>, None), transactions |-> transactions,
     prev_block_id |-> prev_block_id]

\* Block::new, src/block.rs:15-22
BlockNew(transactions, prev_block_id) ==
    [id |-> BlockGenerateId(transactions, prev_block_id),
     transactions |-> transactions,
     prev_block_id |-> prev_block_id]

\* SetPreviousBlockId that leaves the block as the caller prepared it
SetPreviousBlockIdSkipped(block, prev_block_id) == block

\* SetPreviousBlockId that stores the new predecessor and keeps the old id
SetPreviousBlockIdKeepsId(block, prev_block_id) ==
    [block EXCEPT !.prev_block_id = prev_block_id]

\* Block::set_previous_block_id, src/block.rs:30-33
SetPreviousBlockId(block, prev_block_id) ==
    [block EXCEPT !.prev_block_id = prev_block_id,
                  !.id = BlockGenerateId(block.transactions, prev_block_id)]

---------------------------------------------------------------------------
(* Chain, src/chain.rs *)

\* Chain::last, src/chain.rs:40-42
Last(c) == IF c = << >> THEN None ELSE Some(c[Len(c)])

\* Height that counts the blocks instead of naming the last position
HeightIsLen(c) == IF c = << >> THEN None ELSE Some(Len(c))

\* Chain::height, src/chain.rs:27-32
Height(c) == IF c = << >> THEN None ELSE Some(Len(c) - 1)

\* lines 15-19 of Chain::append: the id of the last block, if any
PreviousBlockId(c) == IF IsSome(Last(c)) THEN Some(Unwrap(Last(c)).id) ELSE None

\* an append that puts the new block in the place of the tip
PushedOverTip(c, block) ==
    IF c = << >> THEN <<SetPreviousBlockId(block, None)>>
    ELSE [c EXCEPT ![Len(c)] = SetPreviousBlockId(block, PreviousBlockId(c))]

\* lines 15-21 of Chain::append: the vector after the push
Pushed(c, block) == c \o <<SetPreviousBlockId(block, PreviousBlockId(c))>>

\* Chain::append, src/chain.rs:14-24
ChainAppend(block) ==
    /\ Len(chain) < MaxChain
    /\ chain' = Pushed(chain, block)
    /\ ret' = Some(Unwrap(Height(chain')))
    /\ appended' = Some(block)

\* The transactions of the tests of src/block.rs and src/chain.rs.
Tx1 == TransactionNew(Bytes(<<0, 1, 2, 3, 4>>), 1)
Tx2 == TransactionNew(Bytes(<<0, 1, 2, 3, 4>>), 2)
Tx3 == TransactionNew(Bytes(<<5, 6, 7, 8, 9>>), 1)

\* The transaction lists of the blocks handed to append.
TxLists == {<< >>, <<Tx1>>, <<Tx3>>, <<Tx1, Tx2>>, <<Tx1, Tx2, Tx3>>}

\* The predecessor ids a caller may have put in a block: none, the bytes of
\* tests::set_previous_block_id, or the id of the current tip.
CallerPrevIds(c) == {None, Some(Bytes(<<1, 2, 3, 4>>)), PreviousBlockId(c)}

\* The blocks handed to append: built by Block::new, the public field id
\* then left alone or overwritten by the caller.
CallerBlocks(c) ==
    UNION {{BlockNew(txs, prev), [BlockNew(txs, prev) EXCEPT !.id = Bytes(<<0>>)]} :
            txs \in TxLists, prev \in CallerPrevIds(c)}

InitChain ==
    /\ NewSnowball(SampleSize, QuorumSize, DecisionThreshold)
    /\ overflow_checks \in BOOLEAN
    /\ round_limit = 0
    /\ NewChain
    /\ NewMempool
    /\ NewNode
    /\ NewMultiset(SampleSize, QuorumSize, DecisionThreshold)

NextChain ==
    \E block \in CallerBlocks(chain) :
        /\ ChainAppend(block)
        /\ UNCHANGED <<snowballVars, twinVars, serdeVars, multiVars, heldVars, mempoolVars, nodeVars, peerVars>>

SpecChain == InitChain /\ [][NextChain]_vars

---------------------------------------------------------------------------
(* A block in the hands of a caller: Block::new, set_previous_block_id,    *)
(* and Chain::append, which takes the block over.                          *)

\* The transaction lists of the blocks a caller builds.
HeldTxLists == {<< >>, <<Tx1>>, <<Tx1, Tx2>>}

BlockNewCall(transactions, prev_block_id) ==
    /\ held' = Some(BlockNew(transactions, prev_block_id))
    /\ block_call' = "new"
    /\ UNCHANGED <<snowballVars, twinVars, serdeVars, multiVars, chainVars, mempoolVars, nodeVars, peerVars>>

SetPreviousBlockIdCall(prev_block_id) ==
    /\ IsSome(held)
    /\ held' = Some(SetPreviousBlockId(Unwrap(held), prev_block_id))
    /\ block_call' = "set_previous_block_id"
    /\ UNCHANGED <<snowballVars, twinVars, serdeVars, multiVars, chainVars, mempoolVars, nodeVars, peerVars>>

AppendHeld ==
    /\ IsSome(held)
    /\ Len(chain) < MaxHeldChain
    /\ ChainAppend(Unwrap(held))
    /\ held' = None
    /\ block_call' = "append"
    /\ UNCHANGED <<snowballVars, twinVars, serdeVars, multiVars, mempoolVars, nodeVars, peerVars>>

InitBlock ==
    /\ NewSnowball(SampleSize, QuorumSize, DecisionThreshold)
    /\ overflow_checks = TRUE
    /\ round_limit = 0
    /\ NewChain
    /\ NewMempool
    /\ NewNode
    /\ NewMultiset(SampleSize, QuorumSize, DecisionThreshold)

NextBlock ==
    \/ \E transactions \in HeldTxLists, prev_block_id \in CallerPrevIds(chain) :
          BlockNewCall(transactions, prev_block_id)
    \/ \E prev_block_id \in CallerPrevIds(chain) :
          SetPreviousBlockIdCall(prev_block_id)
    \/ AppendHeld

SpecBlock == InitBlock /\ [][NextBlock]_vars

---------------------------------------------------------------------------
(* Mempool, src/mempool.rs *)

\* Ord for Keccak256 as the BTreeMap uses it: a < b
IndexLess(a, b) == Mix(a) < Mix(b)

\* one entry of the map
MempoolEntry(index, transaction) == [index |-> index, transaction |-> transaction]

\* an insert that puts a new key behind all others, as a Vec would
MempoolInsertAtEnd(m, index, transaction) ==
    SelectSeq(m, LAMBDA e : e.index # index) \o <<MempoolEntry(index, transaction)>>

\* an insert that keeps the old entry of a key that is present
MempoolInsertNoReplace(m, index, transaction) ==
    SelectSeq(m, LAMBDA e : ~IndexLess(index, e.index))
        \o <<MempoolEntry(index, transaction)>>
        \o SelectSeq(m, LAMBDA e : IndexLess(index, e.index))

\* Mempool::insert, src/mempool.rs:16-18: BTreeMap::insert replaces the
\* value of a key that is present and otherwise places the key in order
MempoolInsert(m, index, transaction) ==
    SelectSeq(m, LAMBDA e : e.index # index /\ ~IndexLess(index, e.index))
        \o <<MempoolEntry(index, transaction)>>
        \o SelectSeq(m, LAMBDA e : IndexLess(index, e.index))

\* Mempool::clear, src/mempool.rs:21-23
MempoolClear(m) == << >>

\* Mempool::len, src/mempool.rs:26-28
MempoolLen(m) == Len(m)

\* BTreeMap::remove of one key: Some(_) when the key was present
HasIndex(m, index) == \E i \in 1..Len(m) : m[i].index = index
WithoutIndex(m, index) == SelectSeq(m, LAMBDA e : e.index # index)

\* remove_transactions that counts every listed index
RECURSIVE RemoveTransactionsCountsAll(_, _)
RemoveTransactionsCountsAll(m, indexes) ==
    IF indexes = << >> THEN [mempool |-> m, removed |-> 0]
    ELSE LET rest == RemoveTransactionsCountsAll(WithoutIndex(m, Head(indexes)),
                                                 Tail(indexes))
         IN [mempool |-> rest.mempool, removed |-> rest.removed + 1]

\* Mempool::remove_transactions, src/mempool.rs:32-40: the map afterwards
\* and the returned count
RECURSIVE RemoveTransactions(_, _)
RemoveTransactions(m, indexes) ==
    IF indexes = << >> THEN [mempool |-> m, removed |-> 0]
    ELSE LET index == Head(indexes)
             rest == RemoveTransactions(WithoutIndex(m, index), Tail(indexes))
         IN [mempool |-> rest.mempool,
             removed |-> rest.removed + (IF HasIndex(m, index) THEN 1 ELSE 0)]

\* get_all_transactions that answers Some(empty) for an empty map
GetAllTransactionsAlwaysSome(m) == Some([i \in 1..Len(m) |-> m[i].transaction])

\* Mempool::get_all_transactions, src/mempool.rs:43-48
GetAllTransactions(m) ==
    IF MempoolLen(m) # 0 THEN Some([i \in 1..Len(m) |-> m[i].transaction])
    ELSE None

\* a call on the Mempool: its name, the indexes it was given, the count it
\* returned (remove_transactions) and the list it returned
\* (get_all_transactions)
MempoolCall(op, indexes, removed, all) ==
    [op |-> op, indexes |-> indexes, removed |-> removed, all |-> all]

\* The keys and transactions of the tests of src/mempool.rs: the ids of the
\* transactions serve as keys, and any key may hold any transaction.
MempoolKeys == {Tx1.id, Tx2.id, Tx3.id}
MempoolTxs == {Tx1, Tx2, Tx3}
IndexLists == UNION {[1..n -> MempoolKeys] : n \in 0..MaxIndexes}

InsertCall(index, transaction) ==
    /\ mempool' = MempoolInsert(mempool, index, transaction)
    /\ stored' = {e \in stored : e.index # index}
                    \cup {MempoolEntry(index, transaction)}
    /\ mp_call' = MempoolCall("insert", <<index>>, 0, None)
    /\ UNCHANGED <<snowballVars, twinVars, serdeVars, multiVars, chainVars, heldVars, nodeVars, peerVars>>

ClearCall ==
    /\ mempool' = MempoolClear(mempool)
    /\ stored' = {}
    /\ mp_call' = MempoolCall("clear", << >>, 0, None)
    /\ UNCHANGED <<snowballVars, twinVars, serdeVars, multiVars, chainVars, heldVars, nodeVars, peerVars>>

RemoveTransactionsCall(indexes) ==
    /\ mempool' = RemoveTransactions(mempool, indexes).mempool
    /\ stored' = {e \in stored : \A i \in 1..Len(indexes) : e.index # indexes[i]}
    /\ mp_call' = MempoolCall("remove", indexes,
                              RemoveTransactions(mempool, indexes).removed, None)
    /\ UNCHANGED <<snowballVars, twinVars, serdeVars, multiVars, chainVars, heldVars, nodeVars, peerVars>>

GetAllTransactionsCall ==
    /\ mp_call' = MempoolCall("get_all", << >>, 0, GetAllTransactions(mempool))
    /\ UNCHANGED <<mempool, stored>>
    /\ UNCHANGED <<snowballVars, twinVars, serdeVars, multiVars, chainVars, heldVars, nodeVars, peerVars>>

InitMempool ==
    /\ NewSnowball(SampleSize, QuorumSize, DecisionThreshold)
    /\ overflow_checks \in BOOLEAN
    /\ round_limit = 0
    /\ NewChain
    /\ NewMempool
    /\ NewNode
    /\ NewMultiset(SampleSize, QuorumSize, DecisionThreshold)

NextMempool ==
    \/ \E index \in MempoolKeys, transaction \in MempoolTxs :
          InsertCall(index, transaction)
    \/ ClearCall
    \/ \E indexes \in IndexLists : RemoveTransactionsCall(indexes)
    \/ GetAllTransactionsCall

SpecMempool == InitMempool /\ [][NextMempool]_vars

---------------------------------------------------------------------------
(* Node, src/node.rs.  The operations are functions of the chain c and the *)
(* map m of the Node they are called on.                                   *)

\* Node::generate_transaction_index, src/node.rs:103-110
GenerateTransactionIndex(c, transaction) ==
    Hash(EncodeBytes(transaction.id) \o EncodeOption(PreviousBlockId(c)))

\* an add_transaction into a map that keeps the order of arrival
AddTransactionToAtEnd(c, m, transaction) ==
    MempoolInsertAtEnd(m, GenerateTransactionIndex(c, transaction), transaction)

\* Node::add_transaction, src/node.rs:53-56: the map afterwards
AddTransactionTo(c, m, transaction) ==
    MempoolInsert(m, GenerateTransactionIndex(c, transaction), transaction)

\* Node::add_transactions, src/node.rs:59-63: the map afterwards
RECURSIVE AddTransactionsTo(_, _, _)
AddTransactionsTo(c, m, transactions) ==
    IF transactions = << >> THEN m
    ELSE AddTransactionsTo(c, AddTransactionTo(c, m, Head(transactions)),
                           Tail(transactions))

\* a propose_block that never names a predecessor
ProposeBlockOfNoPrev(c, m) ==
    IF IsSome(GetAllTransactions(m))
    THEN Some(BlockNew(Unwrap(GetAllTransactions(m)), None))
    ELSE None

\* Node::propose_block, src/node.rs:66-75: the value returned
ProposeBlockOf(c, m) ==
    IF IsSome(GetAllTransactions(m))
    THEN Some(BlockNew(Unwrap(GetAllTransactions(m)), PreviousBlockId(c)))
    ELSE None

\* a finalize_block that leaves the surviving entries under their old keys
RepopulateSkipped(c, m) == m

\* lines 93-99 of Node::finalize_block: the surviving transactions are
\* taken out and inserted again under an index against the new tip
Repopulate(c, m) ==
    IF IsSome(GetAllTransactions(m))
    THEN AddTransactionsTo(c, MempoolClear(m), Unwrap(GetAllTransactions(m)))
    ELSE m

\* indexes taken after the append, against the new tip
TxIndexesAfterAppend(c, block) ==
    [i \in 1..Len(block.transactions) |->
        Hash(EncodeBytes(block.transactions[i].id)
                \o EncodeOption(PreviousBlockId(Pushed(c, block))))]

\* lines 80-84 of Node::finalize_block: the indexes of the transactions of
\* the block, against the tip the chain has before the append
TxIndexes(c, block) ==
    [i \in 1..Len(block.transactions) |->
        GenerateTransactionIndex(c, block.transactions[i])]

\* Node::finalize_block, src/node.rs:78-100: the map afterwards (the chain
\* afterwards is Pushed(c, block))
FinalizeBlockMempool(c, m, block) ==
    Repopulate(Pushed(c, block),
               RemoveTransactions(m, TxIndexes(c, block)).mempool)

\* The senders create_transaction may draw: digests of two of the
\* shuffles of the numbers (here 1..3 in place of 1..99).
ShuffleSenders == {Hash(Bytes(<<1, 2, 3>>)), Hash(Bytes(<<3, 1, 2>>))}

\* The transaction handed to add_transaction (tests::add_transaction), and
\* the lists handed to add_transactions.
NodeTxs == {Tx1}
NodeTxLists == {<< >>, <<Tx1, Tx1>>}

\* The blocks handed to finalize_block: the outstanding proposal, or a
\* block built by a caller from one transaction that may be pending and
\* one that never is.
FinalizeBlocks ==
    (IF IsSome(proposal) THEN {Unwrap(proposal)} ELSE {})
        \cup {BlockNew(<<Tx1, Tx2>>, None)}

\* a create_transaction that increments the nonce before it builds the
\* transaction
CreateTransactionNonceFirst(sender) ==
    /\ node_nonce <= MaxNonce
    /\ mempool' = AddTransactionTo(chain, mempool,
                                   TransactionNew(sender, node_nonce + 1))
    /\ node_nonce' = node_nonce + 1
    /\ node_call' = "create"
    /\ UNCHANGED <<proposal, fresh, stored, mp_call>>
    /\ UNCHANGED <<snowballVars, twinVars, serdeVars, multiVars, chainVars, heldVars, peerVars>>

\* Node::create_transaction, src/node.rs:35-50
CreateTransaction(sender) ==
    /\ node_nonce <= MaxNonce
    /\ mempool' = AddTransactionTo(chain, mempool, TransactionNew(sender, node_nonce))
    /\ node_nonce' = node_nonce + 1
    /\ node_call' = "create"
    /\ UNCHANGED <<proposal, fresh, stored, mp_call>>
    /\ UNCHANGED <<snowballVars, twinVars, serdeVars, multiVars, chainVars, heldVars, peerVars>>

AddTransaction(transaction) ==
    /\ mempool' = AddTransactionTo(chain, mempool, transaction)
    /\ node_call' = "add"
    /\ UNCHANGED <<node_nonce, proposal, fresh, stored, mp_call>>
    /\ UNCHANGED <<snowballVars, twinVars, serdeVars, multiVars, chainVars, heldVars, peerVars>>

AddTransactions(transactions) ==
    /\ mempool' = AddTransactionsTo(chain, mempool, transactions)
    /\ node_call' = "add_all"
    /\ UNCHANGED <<node_nonce, proposal, fresh, stored, mp_call>>
    /\ UNCHANGED <<snowballVars, twinVars, serdeVars, multiVars, chainVars, heldVars, peerVars>>

ProposeBlock ==
    /\ proposal' = ProposeBlockOf(chain, mempool)
    /\ fresh' = TRUE
    /\ node_call' = "propose"
    /\ UNCHANGED <<node_nonce, mempoolVars>>
    /\ UNCHANGED <<snowballVars, twinVars, serdeVars, multiVars, chainVars, heldVars, peerVars>>

FinalizeBlock(block) ==
    /\ Len(chain) < MaxNodeChain
    /\ ChainAppend(block)
    /\ mempool' = FinalizeBlockMempool(chain, mempool, block)
    /\ fresh' = FALSE
    /\ node_call' = "finalize"
    /\ UNCHANGED <<node_nonce, proposal, stored, mp_call>>
    /\ UNCHANGED <<snowballVars, twinVars, serdeVars, multiVars, heldVars, peerVars>>

InitNode ==
    /\ NewSnowball(SampleSize, QuorumSize, DecisionThreshold)
    /\ overflow_checks = TRUE
    /\ round_limit = 0
    /\ NewChain
    /\ NewMempool
    /\ NewNode
    /\ NewMultiset(SampleSize, QuorumSize, DecisionThreshold)

NextNode ==
    \/ \E sender \in ShuffleSenders :
          CreateTransaction(sender) /\ UNCHANGED added_under
    \/ \E transaction \in NodeTxs :
          AddTransaction(transaction) /\ UNCHANGED added_under
    \/ \E transactions \in NodeTxLists :
          AddTransactions(transactions) /\ UNCHANGED added_under
    \/ ProposeBlock /\ UNCHANGED added_under
    \/ \E block \in FinalizeBlocks :
          FinalizeBlock(block) /\ UNCHANGED added_under

SpecNode == InitNode /\ [][NextNode]_vars

---------------------------------------------------------------------------
(* A Node that is handed the same transactions again and again, between    *)
(* finalizations of blocks that hold them or do not.                       *)

\* The transactions handed to add_transaction, and the blocks handed to
\* finalize_block: one without and one with the first transaction.
ReaddTxs == {Tx1, Tx3}
ReaddBlocks == {BlockNew(<<Tx2>>, None), BlockNew(<<Tx1>>, None)}

\* Node::add_transaction, with the tip of the call recorded
AddTransactionUnderTip(transaction) ==
    /\ AddTransaction(transaction)
    /\ added_under' = added_under \cup {<<transaction, PreviousBlockId(chain)>>}

\* Node::finalize_block; the record keeps the transactions still pending
FinalizeBlockKeepingRecord(block) ==
    /\ FinalizeBlock(block)
    /\ added_under' = {p \in added_under :
                         \E i \in 1..Len(mempool') : mempool'[i].transaction = p[1]}

InitReadd ==
    /\ NewSnowball(SampleSize, QuorumSize, DecisionThreshold)
    /\ overflow_checks = TRUE
    /\ round_limit = 0
    /\ NewChain
    /\ NewMempool
    /\ NewNode
    /\ NewMultiset(SampleSize, QuorumSize, DecisionThreshold)

NextReadd ==
    \/ \E transaction \in ReaddTxs : AddTransactionUnderTip(transaction)
    \/ \E block \in ReaddBlocks : FinalizeBlockKeepingRecord(block)

SpecReadd == InitReadd /\ [][NextReadd]_vars

---------------------------------------------------------------------------
(* Two Nodes: the Node above and a second one, each with its own chain and *)
(* mempool, fed the same transactions and blocks in any order.             *)

\* The transactions both Nodes may be given, and the blocks both may be
\* told to finalize.
PeerTxs == {Tx1, Tx2, Tx3}
PeerBlocks == {BlockNew(<<Tx1>>, None), BlockNew(<<Tx2, Tx3>>, None)}

\* Node::add_transaction on the second Node
PeerAddTransaction(transaction) ==
    /\ peer_mempool' = AddTransactionTo(peer_chain, peer_mempool, transaction)
    /\ UNCHANGED peer_chain
    /\ UNCHANGED <<snowballVars, twinVars, serdeVars, multiVars, chainVars, heldVars, mempoolVars, nodeVars>>

\* Node::finalize_block on the second Node
PeerFinalizeBlock(block) ==
    /\ Len(peer_chain) < MaxPeerChain
    /\ peer_chain' = Pushed(peer_chain, block)
    /\ peer_mempool' = FinalizeBlockMempool(peer_chain, peer_mempool, block)
    /\ UNCHANGED <<snowballVars, twinVars, serdeVars, multiVars, chainVars, heldVars, mempoolVars, nodeVars>>

InitPeers ==
    /\ NewSnowball(SampleSize, QuorumSize, DecisionThreshold)
    /\ overflow_checks = TRUE
    /\ round_limit = 0
    /\ NewChain
    /\ NewMempool
    /\ NewNode
    /\ NewMultiset(SampleSize, QuorumSize, DecisionThreshold)

NextPeers ==
    \/ \E transaction \in PeerTxs :
          AddTransaction(transaction) /\ UNCHANGED added_under
    \/ \E block \in PeerBlocks :
          /\ Len(chain) < MaxPeerChain
          /\ FinalizeBlock(block)
          /\ UNCHANGED added_under
    \/ \E transaction \in PeerTxs : PeerAddTransaction(transaction)
    \/ \E block \in PeerBlocks : PeerFinalizeBlock(block)

SpecPeers == InitPeers /\ [][NextPeers]_vars

---------------------------------------------------------------------------
(* Decoding, src/transaction.rs:35-38 and src/block.rs:54-57: bincode      *)
(* reads the fields in the order and layout it writes them, from a slice,  *)
(* and reports an error when the slice ends early or a tag is unknown;     *)
(* bytes after the last field are left unread.  Both deserialize functions *)
(* unwrap the result.                                                      *)
(*                                                                         *)
(* The inputs below cut byte strings between items only and keep every     *)
(* number below 2^24, so no read ends inside a digest or starts on one.    *)

\* the number of bytes an item stands for
ItemLen(x) == IF x[1] = "u8" THEN 1 ELSE DigestLen

\* the outcome of reading one field at a position: the value and the
\* position after it, or an error of bincode
Failed == [ok |-> FALSE, value |-> << >>, next |-> 0]
Parsed(v, next) == [ok |-> TRUE, value |-> v, next |-> next]

\* n bytes from position pos on; an error when fewer are left
RECURSIVE ReadBytes(_, _, _)
ReadBytes(data, pos, n) ==
    IF n = 0 THEN Parsed(<< >>, pos)
    ELSE IF pos > Len(data) \/ ItemLen(data[pos]) > n THEN Failed
    ELSE LET r == ReadBytes(data, pos + 1, n - ItemLen(data[pos]))
         IN IF r.ok THEN Parsed(<<data[pos]>> \o r.value, r.next) ELSE Failed

\* the number written in k bytes, lowest first
RECURSIVE FromLittleEndian(_, _, _)
FromLittleEndian(data, pos, k) ==
    IF k = 0 THEN 0 ELSE data[pos][2] + 256 * FromLittleEndian(data, pos + 1, k - 1)

\* a u64, and a length prefix
DecodeU64(data, pos) ==
    IF pos + 7 > Len(data) \/ \E i \in pos..(pos + 7) : data[i][1] # "u8"
    THEN Failed
    ELSE Parsed(FromLittleEndian(data, pos, 8), pos + 8)

\* a Vec<u8>: its length, then that many bytes
DecodeBytes(data, pos) ==
    LET n == DecodeU64(data, pos)
    IN IF n.ok THEN ReadBytes(data, n.next, n.value) ELSE Failed

\* a reader of Option<Vec<u8>> that takes every tag for that of None
DecodeOptionAnyTagNone(data, pos) ==
    IF pos > Len(data) THEN Failed ELSE Parsed(None, pos + 1)

\* an Option<Vec<u8>>: tag 0 is None, tag 1 is Some, any other an error
DecodeOption(data, pos) ==
    IF pos > Len(data) THEN Failed
    ELSE IF data[pos] = Byte(0) THEN Parsed(None, pos + 1)
    ELSE IF data[pos] = Byte(1)
    THEN LET v == DecodeBytes(data, pos + 1)
         IN IF v.ok THEN Parsed(Some(v.value), v.next) ELSE Failed
    ELSE Failed

\* a Transaction as serde reads it (derive, src/transaction.rs:8): the
\* fields id, sender, nonce as they stand in the bytes
DecodeTransaction(data, pos) ==
    LET id == DecodeBytes(data, pos)
        sender == IF id.ok THEN DecodeBytes(data, id.next) ELSE Failed
        nonce == IF sender.ok THEN DecodeU64(data, sender.next) ELSE Failed
    IN IF nonce.ok
       THEN Parsed([id |-> id.value, sender |-> sender.value, nonce |-> nonce.value],
                   nonce.next)
       ELSE Failed

\* count Transactions in a row
RECURSIVE DecodeAll(_, _, _)
DecodeAll(data, pos, count) ==
    IF count = 0 THEN Parsed(<< >>, pos)
    ELSE LET tx == DecodeTransaction(data, pos)
             rest == IF tx.ok THEN DecodeAll(data, tx.next, count - 1) ELSE Failed
         IN IF rest.ok THEN Parsed(<<tx.value>> \o rest.value, rest.next) ELSE Failed

\* what a call of deserialize ends in: a panic, or a returned record
Panic == [panicked |-> TRUE, out |-> None]
Returned(x) == [panicked |-> FALSE, out |-> Some(x)]

\* Transaction::deserialize, src/transaction.rs:35-38
TransactionDeserialize(data) ==
    LET sender == DecodeBytes(data, 1)
        nonce == IF sender.ok THEN DecodeU64(data, sender.next) ELSE Failed
    IN IF nonce.ok THEN Returned(TransactionNew(sender.value, nonce.value)) ELSE Panic

\* Block::deserialize, src/block.rs:54-57
BlockDeserialize(data) ==
    LET count == DecodeU64(data, 1)
        transactions == IF count.ok THEN DecodeAll(data, count.next, count.value)
                        ELSE Failed
        prev_block_id == IF transactions.ok THEN DecodeOption(data, transactions.next)
                         ELSE Failed
    IN IF prev_block_id.ok
       THEN Returned(BlockNew(transactions.value, prev_block_id.value))
       ELSE Panic

\* The senders and nonces of the encoded transactions: those of
\* tests::serde, an empty sender, a digest as sender, a nonce of two bytes.
SerdeSenders == {<< >>, Bytes(<<0, 1, 2, 3, 4>>), Hash(Bytes(<<1, 2, 3>>))}
SerdeNonces == {0, 1, 42, 300}

\* a Transaction whose stored id is not the digest of its sender and nonce
Forged(tx) == [tx EXCEPT !.id = TransactionGenerateId(tx.sender, tx.nonce + 1)]

\* The transaction lists and predecessor ids of the encoded blocks.
SerdeTxLists == {<< >>, <<Tx1>>, <<Tx1, Tx2>>, <<Forged(Tx1)>>, <<Tx3, Forged(Tx2)>>}
SerdePrevIds == {None, Some(Bytes(<<5, 6, 7, 8, 9>>)), Some(BlockGenerateId(<< >>, None))}

TransactionEncodings ==
    {TransactionSerialize(sender, nonce) : sender \in SerdeSenders, nonce \in SerdeNonces}
BlockEncodings ==
    {BlockSerialize(txs, prev) : txs \in SerdeTxLists, prev \in SerdePrevIds}

\* The bytes handed to deserialize: an encoding, an encoding cut short
\* anywhere, an encoding with a byte after it, and for a block the
\* encoding of its transactions followed by a tag that is neither 0 nor 1.
Truncated(e) == {SubSeq(e, 1, k) : k \in 0..Len(e)}
TransactionInputs ==
    UNION {Truncated(e) \cup {e \o <<Byte(7)>>} : e \in TransactionEncodings}
BlockInputs ==
    UNION {Truncated(e) \cup {e \o <<Byte(7)>>} : e \in BlockEncodings}
        \cup {U64LE(Len(txs)) \o EncodeAll(txs) \o <<Byte(2)>> : txs \in SerdeTxLists}

TransactionDeserializeCall(data) ==
    /\ decoded' = [op |-> "transaction", data |-> data,
                   panicked |-> TransactionDeserialize(data).panicked,
                   out |-> TransactionDeserialize(data).out]
    /\ UNCHANGED <<snowballVars, twinVars, chainVars, heldVars, mempoolVars, nodeVars,
                   peerVars, multiVars>>

BlockDeserializeCall(data) ==
    /\ decoded' = [op |-> "block", data |-> data,
                   panicked |-> BlockDeserialize(data).panicked,
                   out |-> BlockDeserialize(data).out]
    /\ UNCHANGED <<snowballVars, twinVars, chainVars, heldVars, mempoolVars, nodeVars,
                   peerVars, multiVars>>

InitSerde ==
    /\ NewSnowball(SampleSize, QuorumSize, DecisionThreshold)
    /\ overflow_checks = TRUE
    /\ round_limit = 0
    /\ NewChain
    /\ NewMempool
    /\ NewNode
    /\ NewMultiset(SampleSize, QuorumSize, DecisionThreshold)

NextSerde ==
    \/ \E data \in TransactionInputs : TransactionDeserializeCall(data)
    \/ \E data \in BlockInputs : BlockDeserializeCall(data)

SpecSerde == InitSerde /\ [][NextSerde]_vars

---------------------------------------------------------------------------
(* The Snowball over a list of votes, src/consensus/snowball.rs            *)

\* Snowball::count_votes, src/consensus/snowball.rs:67-76: the HashMap from
\* count to value; the unwrap of the first vote panics on an empty list,
\* the unwrap of the first other value on a list of one value, try_into on
\* a count above 255; the second insert replaces the first on equal counts
CountVotes(votes) ==
    IF votes = << >> THEN [panicked |-> TRUE, map |-> << >>]
    ELSE LET value_a == votes[1]
             others == SelectSeq(votes, LAMBDA val : val # value_a)
         IN IF others = << >> THEN [panicked |-> TRUE, map |-> << >>]
            ELSE LET value_b == others[1]
                     count_a == Len(SelectSeq(votes, LAMBDA val : val = value_a))
                     count_b == Len(votes) - count_a
                 IN IF count_a > U8Max \/ count_b > U8Max
                    THEN [panicked |-> TRUE, map |-> << >>]
                    ELSE [panicked |-> FALSE,
                          map |-> IF count_a = count_b THEN count_a :> value_b
                                  ELSE (count_a :> value_a) @@ (count_b :> value_b)]

\* the end of tick, lines 60-62, with the path taken
Settled(m, path) ==
    [state |-> IF m.successes > m.decision_threshold
               THEN [m EXCEPT !.is_done = TRUE] ELSE m,
     path |-> path]

\* Snowball::tick, src/consensus/snowball.rs:42-63, on the instance m; the
\* addition on the u8 successes panics or wraps with the build
TickOf(m, votes, checks) ==
    IF m.is_done THEN [state |-> m, path |-> "done"]
    ELSE LET vote_mappings == CountVotes(votes)
         IN IF vote_mappings.panicked THEN [state |-> m, path |-> "panic"]
            ELSE LET votes_max == Max(DOMAIN vote_mappings.map)
                     winner == Some(vote_mappings.map[votes_max])
                 IN IF votes_max >= m.quorum_size
                    THEN IF winner = m.value
                         THEN IF m.successes < U8Max
                              THEN Settled([m EXCEPT !.successes = @ + 1], "quorum")
                              ELSE IF checks THEN [state |-> m, path |-> "panic"]
                              ELSE Settled([m EXCEPT !.successes = 0], "quorum")
                         ELSE Settled([m EXCEPT !.value = winner, !.successes = 1],
                                      "quorum")
                    ELSE Settled([m EXCEPT !.successes = 0], "no_quorum")

\* the lists of at most n votes
RECURSIVE VoteLists(_)
VoteLists(n) ==
    IF n = 0 THEN {<< >>}
    ELSE VoteLists(n - 1)
            \cup {Append(votes, v) : votes \in VoteLists(n - 1), v \in Values}

\* One call of tick.
MultiTick(votes) ==
    /\ Len(multi_rounds) < round_limit
    /\ multi' = TickOf(multi, votes, overflow_checks).state
    /\ multi_call' = [path |-> TickOf(multi, votes, overflow_checks).path,
                      votes |-> votes]
    /\ multi_rounds' =
          IF TickOf(multi, votes, overflow_checks).path \in {"quorum", "no_quorum"}
          THEN Append(multi_rounds, votes) ELSE multi_rounds
    /\ UNCHANGED <<snowballVars, twinVars, chainVars, heldVars, mempoolVars, nodeVars,
                   peerVars, serdeVars>>

InitMulti ==
    /\ NewSnowball(SampleSize, QuorumSize, DecisionThreshold)
    /\ overflow_checks \in BOOLEAN
    /\ round_limit = MaxMultiRounds
    /\ NewChain
    /\ NewMempool
    /\ NewNode
    /\ \E q \in 0..MaxVotes, beta \in {0, DecisionThreshold} :
          NewMultiset(SampleSize, q, beta)

NextMulti == \E votes \in VoteLists(MaxVotes) : MultiTick(votes)

SpecMulti == InitMulti /\ [][NextMulti]_vars

\* Long runs: the largest decision threshold a u8 holds, and the first
\* round of tests::change_in_majority again and again.
RedList == <<"Red", "Red", "Red", "Red", "Blue">>

InitMultiLong ==
    /\ NewSnowball(SampleSize, QuorumSize, DecisionThreshold)
    /\ overflow_checks \in BOOLEAN
    /\ round_limit = LongRounds
    /\ NewChain
    /\ NewMempool
    /\ NewNode
    /\ NewMultiset(SampleSize, QuorumSize, U8Max)

NextMultiLong == MultiTick(RedList)

SpecMultiLong == InitMultiLong /\ [][NextMultiLong]_vars

---------------------------------------------------------------------------
(* Properties of the weighted Snowball *)

\* the per-value counter of v, 0 while v has no entry
Count(v) == Entry(counters, v)

\* the winner of the most recent processed round, None without quorum
LastRound == IF rounds = << >> THEN None ELSE rounds[Len(rounds)]

\* the number of the last round won by v, 0 when v never won
LastWin(v) == Max({0} \cup {i \in 1..Len(rounds) : rounds[i] = Some(v)})

MaxCount == Max({Count(v) : v \in Values})
Tied == {v \in Values : Count(v) = MaxCount}

\* every processed round was a quorum round won by v
AllWonBy(v) == \A i \in 1..Len(rounds) : rounds[i] = Some(v)

\* C1: once done is true, every further tick, whatever its votes, leaves
\* value, counter, the per-value counters and done unchanged.
C1_DoneIsFinal ==
    [][done => UNCHANGED <<value, counter, counters, done>>]_vars

\* a tick was called on a Snowball that was done
C1_Witness == done /\ last_call.path = "return"

\* C2: in every reachable state, for every quorum_size and
\* decision_threshold (0 included), done implies that value is Some(v).
C2_DoneHasValue == done => IsSome(value)

C2_Witness == done /\ decision_threshold = 0 /\ quorum_size = 0 /\ IsSome(value)

\* C3: when a tick has set done, the decision_threshold + 1 most recent
\* rounds were all quorum rounds won by one value, the decided value.
\* (rounds grows only while done is false, so in a done state its last
\* entries are the rounds that led to the decision.)
C3_DecidedAfterRun ==
    done =>
        /\ Len(rounds) >= decision_threshold + 1
        /\ \A i \in (Len(rounds) - decision_threshold)..Len(rounds) :
              rounds[i] = value

\* C4: from a new Snowball with decision threshold beta, while every round
\* is a quorum round won by the same v, round i <= beta ends in value = v,
\* counter = i, done = false, and round beta + 1 ends in value = v,
\* counter = beta + 1, done = true; none of these rounds fails.
C4_Convergence ==
    \A v \in Values :
        /\ (rounds # << >> /\ AllWonBy(v) /\ Len(rounds) <= decision_threshold + 1)
           => /\ value = Some(v)
              /\ counter = Len(rounds)
              /\ done = (Len(rounds) = decision_threshold + 1)
        /\ (AllWonBy(v) /\ Len(rounds) <= decision_threshold
              /\ last_call.favorite = Some(v))
           => last_call.path # "panic"

\* C5: in every reachable state with value = Some(v), the per-value counter
\* of v is at least the per-value counter of every other value.
C5_ValueIsArgmax ==
    IsSome(value) => \A w \in Values : Count(Unwrap(value)) >= Count(w)

\* C6 as stated: whenever two or more values tie for the largest per-value
\* counter, value is the one among them that most recently won a quorum
\* round.
C6_TieGoesToLatestWinner ==
    (MaxCount > 0 /\ Cardinality(Tied) >= 2)
    => /\ IsSome(value)
       /\ Unwrap(value) \in Tied
       /\ \A w \in Tied : LastWin(w) <= LastWin(Unwrap(value))

\* C6 as amended: a quorum round whose winner's per-value counter, after its
\* increment, does not exceed the per-value counter of the current value
\* leaves value unchanged: on a tie the earlier holder stays, and the latest
\* winner takes over only with a strictly larger counter.
C6_TieKeepsIncumbent ==
    [][(/\ last_call'.path = "quorum"
        /\ IsSome(value)
        /\ Entry(counters', Unwrap(LastRound')) <= Entry(counters', Unwrap(value)))
       => value' = value]_vars

\* the last round was won by a value that now ties the current value, and
\* the current value is still the earlier winner
C6_Witness ==
    /\ last_call.path = "quorum"
    /\ IsSome(value)
    /\ LastRound # value
    /\ Count(Unwrap(LastRound)) = Count(Unwrap(value))
    /\ LastWin(Unwrap(value)) < LastWin(Unwrap(LastRound))

\* C7: a tick on a state that is not done whose round reaches no quorum
\* sets counter to 0 and leaves value, the per-value counters and done
\* unchanged.
C7_NoQuorumFrame ==
    [][(~done /\ last_call'.path = "noquorum")
       => (counter' = 0 /\ UNCHANGED <<value, counters, done>>)]_vars

\* tests::reset_when_no_quorum: a quorum round, then a round without
C7_Witness ==
    /\ last_call.path = "noquorum"
    /\ Len(rounds) >= 2
    /\ rounds[Len(rounds) - 1] # None
    /\ IsSome(value)
    /\ counter = 0

\* C8: a tick with an empty votes mapping is rejected (the call fails) and
\* leaves value, counter, the per-value counters and done as they were.
C8_EmptyVotesRejected ==
    [][last_call'.empty
       => (last_call'.path = "panic"
           /\ UNCHANGED <<value, counter, counters, done>>)]_vars

---------------------------------------------------------------------------
(* Properties of Chain *)

\* C9: after any sequence of appends of arbitrary blocks, the block at
\* position 0 has prev_block_id = None and every later block has
\* prev_block_id = Some(id of the block before it).  (Positions of the
\* sequence chain count from 1.)
C9_ChainLinked ==
    \A i \in 1..Len(chain) :
        chain[i].prev_block_id = IF i = 1 THEN None ELSE Some(chain[i - 1].id)

\* two blocks are stored, and the caller had prepared the second with a
\* predecessor id other than the id of the first
C9_Witness ==
    /\ Len(chain) >= 2
    /\ IsSome(appended)
    /\ Unwrap(appended).prev_block_id # Some(chain[Len(chain) - 1].id)
    /\ Unwrap(appended).transactions = chain[Len(chain)].transactions

\* C10: height() is None exactly when the chain is empty and otherwise
\* len - 1; every append returns the position of the block it appended,
\* which is height() after the call, 0 for the first append and the
\* previous height + 1 for every later one.
C10_Height ==
    /\ []((Height(chain) = None) <=> (Len(chain) = 0))
    /\ [](Len(chain) > 0 => Height(chain) = Some(Len(chain) - 1))
    /\ [][chain' # chain =>
            /\ ret' = Height(chain')
            /\ Unwrap(ret') = Len(chain)
            /\ (chain = << >> => Unwrap(ret') = 0)
            /\ (chain # << >> => Unwrap(ret') = Unwrap(Height(chain)) + 1)]_vars

\* a second or later append has returned
C10_Witness == IsSome(ret) /\ Unwrap(ret) >= 1 /\ Height(chain) = ret

---------------------------------------------------------------------------
(* Properties of Block and Chain, continued *)

\* C11: Chain::append ignores the prev_block_id (and the id) the caller
\* put in the block: the block it stores carries the caller's transactions,
\* the id of the previous tip as prev_block_id (None on an empty chain), and
\* an id derived again from those transactions and that prev_block_id.
C11_AppendRebinds ==
    [][chain' # chain =>
        LET given == Unwrap(appended')
            tip == PreviousBlockId(chain)
            b == chain'[Len(chain')]
        IN /\ Len(chain') = Len(chain) + 1
           /\ b.transactions = given.transactions
           /\ b.prev_block_id = tip
           /\ b.id = BlockGenerateId(given.transactions, tip)]_vars

\* a block is well formed when its id is the digest of its own fields
IdMatchesFields(b) == b.id = BlockGenerateId(b.transactions, b.prev_block_id)

\* C13: every block, held by a caller or stored in the chain, after any
\* sequence of Block::new, set_previous_block_id and Chain::append has
\* id = hash(encode((transactions, prev_block_id))) of its current fields.
C13_IdMatchesFields ==
    /\ IsSome(held) => IdMatchesFields(Unwrap(held))
    /\ \A i \in 1..Len(chain) : IdMatchesFields(chain[i])

\* a held block just given the predecessor of tests::set_previous_block_id,
\* next to a chain of blocks that append has bound
C13_Witness ==
    /\ block_call = "set_previous_block_id"
    /\ IsSome(held)
    /\ Unwrap(held).prev_block_id = Some(Bytes(<<1, 2, 3, 4>>))
    /\ Unwrap(held).transactions # << >>
    /\ Len(chain) >= 2

\* an append onto a non-empty chain of a block whose caller had named
\* another predecessor and overwritten the id
C11_Witness ==
    /\ Len(chain) >= 2
    /\ IsSome(appended)
    /\ Unwrap(appended).prev_block_id = Some(Bytes(<<1, 2, 3, 4>>))
    /\ Unwrap(appended).id = Bytes(<<0>>)
    /\ chain[Len(chain)].prev_block_id = Some(chain[Len(chain) - 1].id)

---------------------------------------------------------------------------
(* Properties of the Mempool *)

\* the entries of S in ascending order of their index
SortByIndex(S) ==
    [i \in 1..Cardinality(S) |->
        CHOOSE e \in S :
            Cardinality({f \in S : IndexLess(f.index, e.index)}) = i - 1]

\* the transactions of a list of entries, in the same order
TransactionsOf(entries) == [i \in 1..Len(entries) |-> entries[i].transaction]

\* C19: get_all_transactions returns None exactly when nothing is stored,
\* and otherwise the stored transactions, one per stored index, in
\* ascending order of index, whatever the order of the inserts was.
C19_GetAllSorted ==
    mp_call.op = "get_all" =>
        /\ (mp_call.all = None) <=> (stored = {})
        /\ stored # {} =>
              mp_call.all = Some(TransactionsOf(SortByIndex(stored)))

\* the listing of tests::get_all_transactions: tx_1 and tx_2 stored under
\* their ids come back as [tx_2, tx_1]
C19_Witness ==
    /\ mp_call.op = "get_all"
    /\ stored = {MempoolEntry(Tx1.id, Tx1), MempoolEntry(Tx3.id, Tx3)}
    /\ mp_call.all = Some(<<Tx3, Tx1>>)

\* C20: remove_transactions removes exactly the listed indexes that are
\* present, returns their number (an absent or repeated index adds
\* nothing), shortens the map by that number, leaves the other entries as
\* they were, and called again with the same list returns 0 and changes
\* nothing.
C20_RemoveExact ==
    [][mp_call'.op = "remove" =>
        LET indexes == mp_call'.indexes
            listed == {indexes[i] : i \in 1..Len(indexes)}
            present == {k \in listed : HasIndex(mempool, k)}
            again == RemoveTransactions(mempool', indexes)
        IN /\ mp_call'.removed = Cardinality(present)
           /\ MempoolLen(mempool') = MempoolLen(mempool) - mp_call'.removed
           /\ mempool' = SelectSeq(mempool, LAMBDA e : e.index \notin listed)
           /\ again.removed = 0
           /\ again.mempool = mempool']_vars

\* a call that names a present index twice and leaves another entry behind
C20_Witness ==
    /\ mp_call.op = "remove"
    /\ Len(mp_call.indexes) = 2
    /\ mp_call.indexes[1] = mp_call.indexes[2]
    /\ mp_call.removed = 1
    /\ mempool # << >>

---------------------------------------------------------------------------
(* Properties of the Node *)

\* the transactions pending in a map, as a set
Pending(m) == {m[i].transaction : i \in 1..Len(m)}

\* the entries of a map, as a set
Entries(m) == {m[i] : i \in 1..Len(m)}

\* C12: the chain is append-only: no step of a Node shortens it, and a
\* block stored at position i stays there with the same id, transactions
\* and prev_block_id.
C12_AppendOnly ==
    [][/\ Len(chain') >= Len(chain)
       /\ \A i \in 1..Len(chain) : chain'[i] = chain[i]]_vars

\* a chain of two blocks, followed by a call that does not append
C12_Witness ==
    /\ Len(chain) = 2
    /\ node_call = "create"
    /\ mempool # << >>

\* C14: after finalize_block(b) the mempool holds exactly the transactions
\* that were pending before the call and are not in b, one entry each.
C14_FinalizeRemovesExactly ==
    [][node_call' = "finalize" /\ chain' # chain =>
        LET b == Unwrap(appended')
            in_block == {b.transactions[i] : i \in 1..Len(b.transactions)}
        IN /\ Pending(mempool') = Pending(mempool) \ in_block
           /\ Len(mempool') = Cardinality(Pending(mempool'))]_vars

\* a stale proposal (made under an older tip) has been finalized, and a
\* transaction that was not in it is still pending
C14_Witness ==
    /\ node_call = "finalize"
    /\ appended = proposal
    /\ Unwrap(appended).prev_block_id # chain[Len(chain)].prev_block_id
    /\ Unwrap(appended).transactions # << >>
    /\ mempool # << >>

\* C15: a block returned by propose_block and handed to finalize_block
\* with no other finalize_block in between is stored unchanged: the tip
\* afterwards equals the proposal in id, transactions and prev_block_id.
C15_FreshProposalStored ==
    [][(/\ node_call' = "finalize"
        /\ fresh
        /\ IsSome(proposal)
        /\ appended' = proposal) => Last(chain') = proposal]_vars

\* a proposal made on a non-empty chain is the tip, and a later transaction
\* is still pending
C15_Witness ==
    /\ node_call = "finalize"
    /\ Len(chain) = 2
    /\ Last(chain) = proposal
    /\ appended = proposal
    /\ mempool # << >>

\* C16: propose_block returns None exactly when the mempool is empty;
\* otherwise a block of all pending transactions in ascending order of
\* index, with the id of the tip as prev_block_id (None on an empty chain);
\* it changes neither chain, mempool nor nonce.
C16_ProposeBlock ==
    [][node_call' = "propose" =>
        /\ (proposal' = None) <=> (mempool = << >>)
        /\ mempool # << >> =>
              /\ Unwrap(proposal').transactions
                    = TransactionsOf(SortByIndex(Entries(mempool)))
              /\ Unwrap(proposal').prev_block_id = PreviousBlockId(chain)
        /\ UNCHANGED <<chain, mempool, node_nonce>>]_vars

\* a proposal of two transactions on a non-empty chain
C16_Witness ==
    /\ node_call = "propose"
    /\ IsSome(proposal)
    /\ Len(Unwrap(proposal).transactions) = 2
    /\ chain # << >>
    /\ Unwrap(proposal).prev_block_id = Some(chain[Len(chain)].id)

\* C17: two Nodes whose mempools hold the same set of transactions and
\* whose chains have the same tip get identical answers from propose_block,
\* whatever the order of their add_transaction calls and whatever they
\* finalized before.
C17_ProposalOfSetAndTip ==
    (/\ Pending(mempool) = Pending(peer_mempool)
     /\ Last(chain) = Last(peer_chain))
        => ProposeBlockOf(chain, mempool) = ProposeBlockOf(peer_chain, peer_mempool)

\* both Nodes finalized a block and hold the same two pending transactions
C17_Witness ==
    /\ chain # << >>
    /\ Last(chain) = Last(peer_chain)
    /\ Len(mempool) = 2
    /\ Pending(mempool) = Pending(peer_mempool)
    /\ IsSome(ProposeBlockOf(peer_chain, peer_mempool))

\* C18: every mempool entry of a Node is stored under the index
\* hash(encode((tx.id, id of the current tip or None))); no entry stays
\* keyed against an older tip.
C18_IndexAgainstTip ==
    \A i \in 1..Len(mempool) :
        mempool[i].index = GenerateTransactionIndex(chain, mempool[i].transaction)

\* transactions that outlived a finalize_block
C18_Witness ==
    /\ node_call = "finalize"
    /\ Len(chain) = 2
    /\ mempool # << >>

\* C21: the nonce of a Node starts at 1, grows by exactly 1 on every
\* create_transaction, whose transaction carries the nonce from before the
\* increment, and is left as it is by add_transaction, add_transactions,
\* propose_block and finalize_block; it never decreases.
C21_NonceCounts ==
    /\ [](node_call = "new" => node_nonce = 1)
    /\ [][/\ node_nonce' >= node_nonce
          /\ IF node_call' = "create"
             THEN /\ node_nonce' = node_nonce + 1
                  /\ \E sender \in ShuffleSenders :
                        TransactionNew(sender, node_nonce) \in Pending(mempool')
             ELSE node_nonce' = node_nonce]_vars

\* a transaction created after a finalize_block, pending with the nonce the
\* Node had before the call
C21_Witness ==
    /\ node_call = "create"
    /\ node_nonce = 2
    /\ chain # << >>
    /\ \E i \in 1..Len(mempool) : mempool[i].transaction.nonce = 1

\* the tips under which a transaction was handed to add_transaction while
\* it has been pending ever since
TipsOf(transaction) == {p[2] : p \in {q \in added_under : q[1] = transaction}}

\* the entries of the mempool that hold a transaction with the given id
SlotsOf(id) == {i \in 1..Len(mempool) : mempool[i].transaction.id = id}

\* C22, as claimed: a transaction added through add_transaction under two
\* different tips, a finalize_block of a block without it in between,
\* occupies two mempool slots afterwards.
C22_TwoSlots ==
    \A transaction \in ReaddTxs :
        Cardinality(TipsOf(transaction)) >= 2
            => Cardinality(SlotsOf(transaction.id)) = 2

\* C22, amended: such a transaction occupies exactly one slot, keyed
\* against the current tip: finalize_block has rebound the surviving entry
\* to the new tip, so the second add_transaction computes the index the
\* entry already has and replaces it.
C22_OneSlot ==
    \A transaction \in ReaddTxs :
        Cardinality(TipsOf(transaction)) >= 2 =>
            /\ Cardinality(SlotsOf(transaction.id)) = 1
            /\ \A i \in SlotsOf(transaction.id) :
                  /\ mempool[i].transaction = transaction
                  /\ mempool[i].index = GenerateTransactionIndex(chain, transaction)

\* tx_1 was added with no block in the chain and again after a block
\* without it was finalized
C22_Witness ==
    /\ node_call = "add"
    /\ chain # << >>
    /\ {None, PreviousBlockId(chain)} \subseteq TipsOf(Tx1)
    /\ Len(mempool) >= 1

\* bytes are well formed when they begin with the encoding of a value
BeginsWith(data, e) == Len(data) >= Len(e) /\ SubSeq(data, 1, Len(e)) = e
WellFormed(op, data) ==
    \E e \in (IF op = "transaction" THEN TransactionEncodings ELSE BlockEncodings) :
        BeginsWith(data, e)

\* C23, as claimed: decoding malformed or truncated bytes with
\* Transaction::deserialize or Block::deserialize does not panic and
\* produces no record.
C23_MalformedReturnsError ==
    (decoded.op # "none" /\ ~WellFormed(decoded.op, decoded.data))
        => (~decoded.panicked /\ decoded.out = None)

\* the stored id of a transaction is the digest of its sender and nonce
TransactionIdMatches(tx) == tx.id = TransactionGenerateId(tx.sender, tx.nonce)

\* C24, as claimed: Block::deserialize never yields a block that holds a
\* transaction whose stored id differs from the id recomputed from its
\* sender and nonce.
C24_DecodedIdsMatch ==
    (decoded.op = "block" /\ IsSome(decoded.out))
        => \A i \in 1..Len(Unwrap(decoded.out).transactions) :
              TransactionIdMatches(Unwrap(decoded.out).transactions[i])

\* C25: Transaction::deserialize of Transaction::serialize(sender, nonce) is
\* Transaction::new(sender, nonce), and Block::deserialize of
\* Block::serialize(txs, prev) is Block::new(txs, prev), id included.
C25_RoundTrip ==
    /\ \A sender \in SerdeSenders, nonce \in SerdeNonces :
          (decoded.op = "transaction"
              /\ decoded.data = TransactionSerialize(sender, nonce))
          => (~decoded.panicked
              /\ decoded.out = Some(TransactionNew(sender, nonce)))
    /\ \A txs \in SerdeTxLists, prev \in SerdePrevIds :
          (decoded.op = "block" /\ decoded.data = BlockSerialize(txs, prev))
          => (~decoded.panicked /\ decoded.out = Some(BlockNew(txs, prev)))

\* the block of two transactions over a predecessor came back
C25_Witness ==
    /\ decoded.op = "block"
    /\ decoded.data = BlockSerialize(<<Tx1, Tx2>>, Some(Bytes(<<5, 6, 7, 8, 9>>)))
    /\ decoded.out = Some(BlockNew(<<Tx1, Tx2>>, Some(Bytes(<<5, 6, 7, 8, 9>>))))

\* the number of votes for v in a list of votes
Occurrences(votes, v) == Len(SelectSeq(votes, LAMBDA val : val = v))
MaxOccurrences(votes) == Max({Occurrences(votes, v) : v \in Values})

\* the most recent call of tick went through the quorum test
Processed == multi_call.path \in {"quorum", "no_quorum"}

\* C26, as claimed: in a round over any number of distinct values the round
\* is a quorum round exactly when the largest occurrence count is at least
\* quorum_size, and the winner, which a quorum round stores in value, is a
\* value with that count.
C26_WinnerHasMaxCount ==
    Processed =>
        /\ multi_call.path = "quorum"
              <=> MaxOccurrences(multi_call.votes) >= multi.quorum_size
        /\ multi_call.path = "quorum" =>
              /\ IsSome(multi.value)
              /\ Occurrences(multi_call.votes, Unwrap(multi.value))
                    = MaxOccurrences(multi_call.votes)

\* C27, as claimed: tick does not fail on a list of votes that is not
\* empty, a list of equal votes included.
C27_TotalOnNonEmpty ==
    multi_call.votes # << >> => multi_call.path # "panic"

\* the largest weight of a votes mapping that has a key
LargestWeight(votes) == Max({votes[k] : k \in DOMAIN votes})

\* C28, as claimed: a round is a quorum round exactly when the largest
\* weight w* of the votes mapping has
\* w* * max(number of voted values, 2) >= 2 * quorum_size, and the winner
\* of a quorum round is a value that carries w*.
C28_QuorumRule ==
    (last_call.path \in {"quorum", "noquorum", "panic"} /\ DOMAIN round # {})
        => /\ last_call.path = "quorum"
                <=> LargestWeight(round) * Max({Cardinality(DOMAIN round), 2})
                        >= 2 * quorum_size
           /\ last_call.path = "quorum"
                => round[Unwrap(last_call.favorite)] = LargestWeight(round)

\* C29, as claimed: two instances in the same state that are handed the
\* same votes mapping end in the same state.
C29_Deterministic == [][Instance = twin => Instance' = twin']_vars

\* C30, as claimed: whenever the quorum test of tick passes a favorite
\* exists, so its unwrap does not fail, whatever quorum_size and the votes
\* mapping are.
C30_FavoriteExists ==
    HasQuorum(Tally(round), quorum_size) /\ last_call.path # "return"
        /\ last_call.path # "new"
        => last_call.path = "quorum" /\ IsSome(last_call.favorite)

\* the number of quorum rounds v has won since creation
Wins(v) == Cardinality({i \in 1..Len(rounds) : rounds[i] = Some(v)})

\* C31, as claimed: after rounds of any number the per-value counter of
\* each value is the number of quorum rounds the value has won, and no
\* addition on counter or on a per-value counter fails or wraps around.
C31_CountersCountWins ==
    /\ (last_call.path = "panic" => ~IsSome(last_call.favorite))
    /\ \A v \in Values : Count(v) = Wins(v)
    /\ (IsSome(LastRound) /\ value = LastRound) => counter >= 1

\* the values with the most votes in a list of votes, and whether they have
\* as many as the quorum asks for
Winners(votes) == {v \in Values : Occurrences(votes, v) = MaxOccurrences(votes)}
QuorumRound(votes) == MaxOccurrences(votes) >= multi.quorum_size

\* the number of the most recent quorum round, 0 when there was none
LastQuorumRound ==
    Max({0} \cup {i \in 1..Len(multi_rounds) : QuorumRound(multi_rounds[i])})

\* C32, as claimed: value is the winner of the most recent processed quorum
\* round, and None when no round has reached quorum.
C32_ValueIsLastWinner ==
    IF LastQuorumRound = 0 THEN multi.value = None
    ELSE /\ IsSome(multi.value)
         /\ Unwrap(multi.value) \in Winners(multi_rounds[LastQuorumRound])

\* round i was a quorum round won by the current value
WonByValue(i) ==
    /\ IsSome(multi.value)
    /\ QuorumRound(multi_rounds[i])
    /\ Unwrap(multi.value) \in Winners(multi_rounds[i])

\* the length of the unbroken run of most recent rounds won by the current
\* value
RunLength ==
    Len(multi_rounds)
        - Max({0} \cup {i \in 1..Len(multi_rounds) : ~WonByValue(i)})

\* every round had one value with the most votes; a tie names no winner
NoTie == \A i \in 1..Len(multi_rounds) : Cardinality(Winners(multi_rounds[i])) = 1

\* C33, as claimed: successes is the length of the unbroken run of most
\* recent processed rounds that were quorum rounds won by the current value,
\* and is_done is true only after decision_threshold + 1 such rounds.
C33_SuccessesIsRunLength ==
    NoTie =>
        /\ multi.successes = RunLength
        /\ multi.is_done => RunLength >= multi.decision_threshold + 1

====
